---- MODULE Spec2Model ----
(***************************************************************************)
(* Model of src/bin/tools/jar.ts: the jar() pipeline                       *)
(*   Readable.from(walk(rootPath)) -> pathToRecord() -> zip() -> file      *)
(* and the command-line entry point.  walk and zip are modules of the      *)
(* repository that jar.ts imports; the model follows the specification     *)
(* for them (Entry Source, Streaming Archive Encoder, Output Sink).        *)
(*                                                                         *)
(* A string is a sequence of tokens: a token is a separator ("/" or "\\")  *)
(* or a piece of text without separators.  An optional field of a record   *)
(* is <<>> when absent and <<v>> when present.                             *)
(***************************************************************************)
EXTENDS Integers, Sequences, FiniteSets, TLC

\* ------------------------------------------------------------------ bounds
\* the longest sequence of natural paths the Entry Source delivers
MaxEntries == 2
\* the largest number of payload units the encoder writes in one chunk
ChunkSize == 3
\* the encoder stops producing while this many units wait for the sink
HighWaterMark == 4
\* the largest value an offset field of the container can hold
FieldMax == 50
\* pathToRecord accepts no further path while this many descriptors wait for zip
ObjectHighWaterMark == 1

\* ----------------------------------------------------------- option values
None == <<>>
Some(v) == <<v>>
Has(o) == Len(o) = 1
Get(o) == o[1]

\* ------------------------------------------------------------ path strings
RECURSIVE Split(_, _)
\* String.prototype.split(separator): the pieces between the separators
Split(s, sp) ==
    IF Len(s) = 0 THEN << <<>> >>
    ELSE LET rest == Split(Tail(s), sp)
         IN  IF Head(s) = sp
             THEN << <<>> >> \o rest
             ELSE << <<Head(s)>> \o Head(rest) >> \o Tail(rest)

RECURSIVE Join(_, _)
\* Array.prototype.join(separator)
Join(segs, sp) ==
    IF Len(segs) = 0 THEN <<>>
    ELSE IF Len(segs) = 1 THEN segs[1]
    ELSE segs[1] \o <<sp>> \o Join(Tail(segs), sp)

RECURSIVE CommonPrefixLen(_, _)
CommonPrefixLen(f, t) ==
    IF Len(f) = 0 \/ Len(t) = 0 THEN 0
    ELSE IF Head(f) = Head(t) THEN 1 + CommonPrefixLen(Tail(f), Tail(t))
    ELSE 0

\* path.relative(from, to) on a platform whose separator is sp: one ".." for
\* every segment of `from` below the common prefix, then the rest of `to`
relative(from, to, sp) ==
    LET f == Split(from, sp)
        t == Split(to, sp)
        n == CommonPrefixLen(f, t)
        up == [i \in 1..(Len(f) - n) |-> <<"..">>]
    IN  Join(up \o SubSeq(t, n + 1, Len(t)), sp)

\* the files the walk can meet, as the names below the filesystem root
RootSegs == <<"r">>
OutsideFile == <<"x", "c.txt">>
Files ==
    { <<"r", "a.txt">>, <<"r", "sub", "b.txt">>,
      <<"r", "META-INF", "MANIFEST.MF">>, OutsideFile }

\* the content of each file, in payload units
FileData(segs) ==
    CASE segs = <<"r", "a.txt">> -> <<"he", "llo">>
      [] segs = <<"r", "sub", "b.txt">> -> <<>>
      [] segs = <<"r", "META-INF", "MANIFEST.MF">> -> <<"mine">>
      [] OTHER -> <<"c">>

Separators == {"/", "\\"}

\* the absolute path string of a file on a platform whose separator is sp
AbsPath(segs, sp) ==
    LET drive == IF sp = "/" THEN <<>> ELSE <<"C:">>
    IN  Join(<<drive>> \o [i \in 1..Len(segs) |-> <<segs[i]>>], sp)

\* --------------------------------------------------------- build parameters
groupId == "group"
artifactId == "artifact"
version == "1.0.0"

IsWhite(tok) == tok \in {" ", "\n"}

RECURSIVE TrimFrom(_, _)
TrimFrom(s, eating) ==
    IF Len(s) = 0 THEN <<>>
    ELSE IF eating /\ IsWhite(Head(s)) THEN TrimFrom(Tail(s), TRUE)
    ELSE <<Head(s)>> \o TrimFrom(Tail(s), Head(s) = "\n")

\* trimIndent: s.replace(/(\n)\s+/g, "$1"), the white space that follows a
\* line break is removed
trimIndent(s) == TrimFrom(s, FALSE)

\* Buffer.from(string): the payload units of a text are its tokens
BufferFrom(s) == s

ManifestText ==
    << "Manifest-Version: 1.0", "\n", " ",
       "Archiver-Version: Plexus Archiver", "\n", " ",
       "Created-By: Keycloakify", "\n", " ",
       "Built-By: unknown", "\n", " ",
       "Build-Jdk: 19.0.0" >>

PomPropsText ==
    << "# Generated by keycloakify", "\n", " ",
       "# date", "\n", " ",
       "artifactId=", artifactId, "\n", " ",
       "groupId=", groupId, "\n", " ",
       "version=", version >>

\* the synthesized descriptors of jar()
manifest ==
    [ path |-> Some(<<"META-INF", "/", "MANIFEST.MF">>),
      filename |-> None,
      data |-> Some(BufferFrom(trimIndent(ManifestText))) ]

pomProps ==
    [ path |-> Some(<<"META-INF", "/", "maven", "/", groupId, "/", artifactId,
                      "/", "pom.properties">>),
      filename |-> None,
      data |-> Some(BufferFrom(trimIndent(PomPropsText))) ]

\* ------------------------------------------------------------------- state
VARIABLES
    sep,               \* the platform's path separator
    paths,             \* the files the walk will yield, in order
    walkPos,           \* how many of them it has yielded
    emitted,           \* every descriptor pathToRecord has pushed, in order
    adapterQ,          \* the descriptors pushed and not yet read by zip
    adapterState,      \* "Streaming", then "Done" once push(null) was called
    adapterFinished,   \* the callback of final was invoked: the adapter emitted 'finish'
    phase,             \* the encoder: "Idle", "PayloadStreaming" or "Ended"
    cur,               \* the entry the encoder has open
    cumulativeOffset,  \* EncoderState.cumulativeOffset
    directoryRecords,  \* EncoderState.directoryRecords
    encQ,              \* the chunks the encoder produced and the sink has not accepted
    headerPos,         \* for each entry begun, the units produced before its header
    out,               \* the units the sink has accepted: the file at targetPath
    sinkState,         \* "open" or "finished"
    failure,           \* the first error of the build, or "none"
    promise,           \* the promise of jar(): "pending", "resolved" or "rejected"
    stderr,            \* what console.error has printed
    exitStatus,        \* the exit status of the process, -1 while it runs
    other              \* a second call of jar() in the same process, while it does not run

vars ==
    << sep, paths, walkPos, emitted, adapterQ, adapterState, adapterFinished, phase, cur,
       cumulativeOffset, directoryRecords, encQ, headerPos, out, sinkState,
       failure, promise, stderr, exitStatus, other >>

sourceVars == << sep, paths >>
adapterVars == << walkPos, emitted, adapterQ, adapterState, adapterFinished >>
encoderVars == << phase, cur, cumulativeOffset, directoryRecords, headerPos >>
cliVars == << stderr, exitStatus >>

rootPath == AbsPath(RootSegs, sep)

RECURSIVE SeqsUpTo(_, _)
\* the sequences over S of length at most n
SeqsUpTo(S, n) ==
    IF n = 0 THEN { <<>> }
    ELSE LET shorter == SeqsUpTo(S, n - 1)
         IN  shorter \cup { Append(q, x) : q \in shorter, x \in S }

NoEntry == [name |-> <<>>, payload |-> <<>>, startOffset |-> 0, sent |-> 0]

\* what a call of jar(), given the paths its walk will yield, starts with:
\* every object of a build is created inside the call
Fresh(ps) ==
    [ paths |-> ps, walkPos |-> 0, emitted |-> <<>>, adapterQ |-> <<>>,
      adapterState |-> "Streaming", adapterFinished |-> FALSE, phase |-> "Idle",
      cur |-> NoEntry, cumulativeOffset |-> 0, directoryRecords |-> <<>>,
      encQ |-> <<>>, headerPos |-> <<>>, out |-> <<>>, sinkState |-> "open",
      failure |-> "none", promise |-> "pending" ]

Init ==
    /\ sep \in Separators
    /\ paths \in SeqsUpTo(Files, MaxEntries)
    /\ walkPos = 0
    /\ emitted = <<>>
    /\ adapterQ = <<>>
    /\ adapterState = "Streaming"
    /\ adapterFinished = FALSE
    /\ phase = "Idle"
    /\ cur = NoEntry
    /\ cumulativeOffset = 0
    /\ directoryRecords = <<>>
    /\ encQ = <<>>
    /\ headerPos = <<>>
    /\ out = <<>>
    /\ sinkState = "open"
    /\ failure = "none"
    /\ promise = "pending"
    /\ stderr = <<>>
    /\ exitStatus = -1
    /\ other = Fresh(<<>>)

\* ---------------------------------------------------------------- pipeline
\* pipeline(): the first error of any stage destroys every stream and rejects
\* the promise of jar() with that error
Fail(err) ==
    /\ failure' = err
    /\ promise' = "rejected"

\* a chain of streams in which an error does not destroy the encoder
EncoderNeverDestroyed == TRUE

\* chains of streams in which an error does not destroy the adapter, the sink
AdapterNeverDestroyed == TRUE
SinkNeverDestroyed == TRUE

\* a stage of a pipeline runs until the pipeline has failed
AdapterLive == failure = "none"
EncoderLive == failure = "none"
SinkLive == failure = "none"

\* ----------------------------------------------------------------- adapter
\* a transform that pushes its record twice
TransformPushesTwice(path) ==
    LET filename == Join(Split(relative(rootPath, path, sep), sep), "/")
        rec == [filename |-> Some(filename), path |-> Some(path), data |-> None]
    IN  << rec, rec >>

\* pathToRecord.transform: what it pushes for one path of the walk
TransformPushes(path) ==
    LET filename == Join(Split(relative(rootPath, path, sep), sep), "/")
    IN  << [filename |-> Some(filename), path |-> Some(path), data |-> None] >>

\* a final that pushes the properties entry first
FinalPushesSwapped == << pomProps, manifest >>

\* a final that forgets the properties entry
FinalPushesManifestOnly == << manifest >>

\* a final that invokes its callback once it has pushed
FinalCallsBackAfterPush == TRUE

\* pathToRecord.final takes no callback parameter and never invokes one
FinalCallsBack == FALSE

\* a transform that is handed paths whatever waits in its readable side
AdapterAlwaysReady == TRUE

\* the transform is handed a path only while its readable side is below its
\* high water mark
AdapterReady == Len(adapterQ) < ObjectHighWaterMark

\* pathToRecord.final: what it pushes before push(null)
FinalPushes == << manifest, pomProps >>

\* the walk yields its next path and pathToRecord transforms it
transform ==
    /\ AdapterLive
    /\ adapterState = "Streaming"
    /\ walkPos < Len(paths)
    /\ AdapterReady
    /\ LET pushed == TransformPushes(AbsPath(paths[walkPos + 1], sep))
       IN  /\ emitted' = emitted \o pushed
           /\ adapterQ' = adapterQ \o pushed
    /\ walkPos' = walkPos + 1
    /\ UNCHANGED << sourceVars, other, adapterState, adapterFinished, encoderVars, encQ, out,
                    sinkState, failure, promise, cliVars >>

\* the walk is exhausted: pathToRecord.final pushes the two synthesized
\* descriptors and then null
final ==
    /\ AdapterLive
    /\ adapterState = "Streaming"
    /\ walkPos = Len(paths)
    /\ emitted' = emitted \o FinalPushes
    /\ adapterQ' = adapterQ \o FinalPushes
    /\ adapterState' = "Done"
    /\ adapterFinished' = FinalCallsBack
    /\ UNCHANGED << sourceVars, other, walkPos, encoderVars, encQ, out, sinkState,
                    failure, promise, cliVars >>

\* the walk throws (an unreadable directory) before it is exhausted
WalkFail ==
    /\ AdapterLive
    /\ adapterState = "Streaming"
    /\ Fail("WalkError")
    /\ UNCHANGED << sourceVars, other, adapterVars, encoderVars, encQ, out, sinkState,
                    cliVars >>

\* ----------------------------------------------------------------- encoder
\* one unit of the byte stream
Unit(k, s, a, b, c) == [k |-> k, s |-> s, a |-> a, b |-> b, c |-> c]

NameUnits(name) == [i \in 1..Len(name) |-> Unit("N", name[i], 0, 0, 0)]
PayloadUnits(bytes) == [i \in 1..Len(bytes) |-> Unit("B", bytes[i], 0, 0, 0)]

\* the local header of an entry: its fixed part, then its name
LocalHeader(name, size) == << Unit("H", "", Len(name), size, 0) >> \o NameUnits(name)

\* the field of a descriptor the encoder reads as the archive-internal name:
\* the one the ZipSource literals of jar() give it in
EntryName(d) == IF Has(d.path) THEN Get(d.path) ELSE <<"undefined">>

\* the content of the file a path string refers to
ReadFile(pathString) ==
    LET hits == { f \in Files : AbsPath(f, sep) = pathString }
    IN  IF hits = {} THEN <<>> ELSE FileData(CHOOSE f \in hits : TRUE)

\* what reading the payload of a descriptor can give: the resident buffer, or
\* for a descriptor without one a read error or the content of the only file
\* the descriptor refers to
PayloadOutcomes(d) ==
    IF Has(d.data)
    THEN { [ok |-> TRUE, bytes |-> Get(d.data)] }
    ELSE { [ok |-> FALSE, bytes |-> <<>>],
           [ok |-> TRUE, bytes |-> ReadFile(Get(d.path))] }

RECURSIVE Flatten(_)
Flatten(chunks) ==
    IF Len(chunks) = 0 THEN <<>> ELSE Head(chunks) \o Flatten(Tail(chunks))

\* every unit the encoder has produced, accepted by the sink or not
Produced == out \o Flatten(encQ)
Buffered == Len(Flatten(encQ))

\* the encoder produces only while the sink does not apply backpressure
SinkReady == Buffered < HighWaterMark

DirNames == [i \in 1..Len(directoryRecords) |-> directoryRecords[i].name]

\* an offset advanced by the payload alone
EntryBytesPayloadOnly(e) == Len(e.payload)

\* the bytes one entry occupies: header and payload
EntryBytes(e) == Len(LocalHeader(e.name, Len(e.payload))) + Len(e.payload)

\* an encoder that opens the next entry while a payload is still streaming
EncoderIdleOrStreaming == phase \in {"Idle", "PayloadStreaming"}

\* the encoder has no entry open
EncoderIdle == phase = "Idle"

\* per-entry protocol, steps 1 and 2: the next descriptor is opened
zipEntryBegin ==
    /\ EncoderLive
    /\ EncoderIdle
    /\ Len(adapterQ) > 0
    /\ SinkReady
    /\ adapterQ' = Tail(adapterQ)
    /\ LET d == Head(adapterQ)
           name == EntryName(d)
       IN  \E r \in PayloadOutcomes(d) :
             IF \E i \in 1..Len(DirNames) : DirNames[i] = name
             THEN /\ Fail("DuplicateEntryError")
                  /\ UNCHANGED << encoderVars, encQ >>
             ELSE IF ~r.ok
             THEN /\ Fail("PayloadReadError")
                  /\ UNCHANGED << encoderVars, encQ >>
             ELSE IF cumulativeOffset > FieldMax
             THEN /\ Fail("ArchiveTooLargeError")
                  /\ UNCHANGED << encoderVars, encQ >>
             ELSE /\ cur' = [name |-> name, payload |-> r.bytes,
                             startOffset |-> cumulativeOffset, sent |-> 0]
                  /\ encQ' = Append(encQ, LocalHeader(name, Len(r.bytes)))
                  /\ headerPos' = Append(headerPos, Len(Produced))
                  /\ phase' = "PayloadStreaming"
                  /\ UNCHANGED << cumulativeOffset, directoryRecords, failure, promise >>
    /\ UNCHANGED << sourceVars, other, walkPos, emitted, adapterState, adapterFinished, out,
                    sinkState, cliVars >>

Min(a, b) == IF a < b THEN a ELSE b

\* step 3: one bounded chunk of the payload is written
zipPayloadChunk ==
    /\ EncoderLive
    /\ phase = "PayloadStreaming"
    /\ cur.sent < Len(cur.payload)
    /\ SinkReady
    /\ LET n == Min(ChunkSize, Len(cur.payload) - cur.sent)
       IN  /\ encQ' = Append(encQ, PayloadUnits(SubSeq(cur.payload, cur.sent + 1, cur.sent + n)))
           /\ cur' = [cur EXCEPT !.sent = cur.sent + n]
    /\ UNCHANGED << sourceVars, other, adapterVars, phase, cumulativeOffset, directoryRecords,
                    headerPos, out, sinkState, failure, promise, cliVars >>

\* steps 4 and 5: the payload is exhausted, the record is appended and the
\* offset advanced
zipEntryFinish ==
    /\ EncoderLive
    /\ phase = "PayloadStreaming"
    /\ cur.sent = Len(cur.payload)
    /\ directoryRecords' =
         Append(directoryRecords,
                [name |-> cur.name, size |-> Len(cur.payload),
                 localHeaderOffset |-> cur.startOffset])
    /\ cumulativeOffset' = cumulativeOffset + EntryBytes(cur)
    /\ phase' = "Idle"
    /\ UNCHANGED << sourceVars, other, adapterVars, cur, headerPos, encQ, out, sinkState,
                    failure, promise, cliVars >>

\* one directory record of the trailing index: its fixed part, then the name
DirectoryUnits(rec) ==
    << Unit("D", "", Len(rec.name), rec.size, rec.localHeaderOffset) >>
    \o NameUnits(rec.name)

RECURSIVE SerializeDirectory(_)
SerializeDirectory(recs) ==
    IF Len(recs) = 0 THEN <<>>
    ELSE DirectoryUnits(Head(recs)) \o SerializeDirectory(Tail(recs))

\* the trailing index and the end-of-index record
TrailingIndex ==
    LET dir == SerializeDirectory(directoryRecords)
    IN  dir \o << Unit("E", "", Len(directoryRecords), cumulativeOffset, Len(dir)) >>

\* end-of-sequence protocol
zipEnd ==
    /\ EncoderLive
    /\ phase = "Idle"
    /\ Len(adapterQ) = 0
    /\ adapterState = "Done"
    /\ SinkReady
    /\ IF cumulativeOffset > FieldMax
       THEN /\ Fail("ArchiveTooLargeError")
            /\ UNCHANGED << phase, encQ >>
       ELSE /\ encQ' = Append(encQ, TrailingIndex)
            /\ phase' = "Ended"
            /\ UNCHANGED << failure, promise >>
    /\ UNCHANGED << sourceVars, other, adapterVars, cur, cumulativeOffset, directoryRecords,
                    headerPos, out, sinkState, cliVars >>

\* -------------------------------------------------------------------- sink
\* the sink accepts the oldest chunk
SinkWrite ==
    /\ SinkLive
    /\ sinkState = "open"
    /\ Len(encQ) > 0
    /\ out' = out \o Head(encQ)
    /\ encQ' = Tail(encQ)
    /\ UNCHANGED << sourceVars, other, adapterVars, encoderVars, sinkState, failure, promise,
                    cliVars >>

\* the encoder has ended and every chunk is accepted: the file is complete;
\* the promise of jar() resolves once every stream of the pipeline has finished
SinkFinish ==
    /\ SinkLive
    /\ sinkState = "open"
    /\ phase = "Ended"
    /\ Len(encQ) = 0
    /\ sinkState' = "finished"
    /\ promise' = IF adapterFinished THEN "resolved" ELSE promise
    /\ UNCHANGED << sourceVars, other, adapterVars, encoderVars, encQ, out, failure, cliVars >>

SinkErrors == {"SinkWriteError", "PrematureClose"}

\* a write fails, or the sink is closed before the stream has ended
SinkFail ==
    /\ SinkLive
    /\ sinkState = "open"
    /\ \E err \in SinkErrors : Fail(err)
    /\ UNCHANGED << sourceVars, other, adapterVars, encoderVars, encQ, out, sinkState, cliVars >>

\* ------------------------------------------------------------ command line
\* the status the process ends with: nothing sets process.exitCode
ProcessExitCode == 0

\* main().catch(e => console.error(e))
catch ==
    /\ promise = "rejected"
    /\ stderr = <<>>
    /\ exitStatus = -1
    /\ stderr' = << failure >>
    /\ UNCHANGED << sourceVars, other, adapterVars, encoderVars, encQ, out, sinkState,
                    failure, promise, exitStatus >>

\* nothing is left to run: the process ends
exit ==
    /\ exitStatus = -1
    /\ \/ sinkState = "finished"
       \/ promise = "rejected" /\ stderr # <<>>
    /\ exitStatus' = ProcessExitCode
    /\ UNCHANGED << sourceVars, other, adapterVars, encoderVars, encQ, out, sinkState,
                    failure, promise, stderr >>

Next ==
    \/ transform
    \/ final
    \/ WalkFail
    \/ zipEntryBegin
    \/ zipPayloadChunk
    \/ zipEntryFinish
    \/ zipEnd
    \/ SinkWrite
    \/ SinkFinish
    \/ SinkFail
    \/ catch
    \/ exit

Spec == Init /\ [][Next]_vars

\* the steps of a build that is not failing: the event loop runs every callback
\* that is ready, and a sink that is open accepts what waits for it
Progress ==
    \/ transform
    \/ final
    \/ zipEntryBegin
    \/ zipPayloadChunk
    \/ zipEntryFinish
    \/ zipEnd
    \/ SinkWrite
    \/ SinkFinish

\* some step of Progress can be taken: ENABLED <<Progress>>_vars, written out
\* from the guards of its actions
ProgressReady ==
    \/ AdapterLive /\ adapterState = "Streaming" /\ (walkPos < Len(paths) => AdapterReady)
    \/ EncoderLive /\ EncoderIdle /\ Len(adapterQ) > 0 /\ SinkReady
    \/ EncoderLive /\ phase = "PayloadStreaming" /\ (cur.sent < Len(cur.payload) => SinkReady)
    \/ EncoderLive /\ phase = "Idle" /\ Len(adapterQ) = 0 /\ adapterState = "Done" /\ SinkReady
    \/ SinkLive /\ sinkState = "open" /\ (Len(encQ) > 0 \/ phase = "Ended")

\* weak fairness of Progress, WF_vars(Progress), with its enabling condition
\* written out as ProgressReady
FairSpec == Spec /\ ([]<>(~ProgressReady) \/ []<><<Progress>>_vars)

\* -------------------------------------------------------------- two builds
\* the inputs of two calls of jar() that run interleaved
InterleavedInputs == { <<>>, << <<"r", "a.txt">> >> }

\* two calls of jar(): the one whose callback runs, and the other one
Init2 ==
    /\ sep \in Separators
    /\ paths \in InterleavedInputs
    /\ walkPos = 0
    /\ emitted = <<>>
    /\ adapterQ = <<>>
    /\ adapterState = "Streaming"
    /\ adapterFinished = FALSE
    /\ phase = "Idle"
    /\ cur = NoEntry
    /\ cumulativeOffset = 0
    /\ directoryRecords = <<>>
    /\ encQ = <<>>
    /\ headerPos = <<>>
    /\ out = <<>>
    /\ sinkState = "open"
    /\ failure = "none"
    /\ promise = "pending"
    /\ stderr = <<>>
    /\ exitStatus = -1
    /\ other \in { Fresh(ps) : ps \in InterleavedInputs }

\* what the build whose callback has returned leaves behind
Suspended ==
    [ paths |-> paths, walkPos |-> walkPos, emitted |-> emitted, adapterQ |-> adapterQ,
      adapterState |-> adapterState, adapterFinished |-> adapterFinished,
      phase |-> phase, cur |-> cur, cumulativeOffset |-> cumulativeOffset,
      directoryRecords |-> directoryRecords, encQ |-> encQ, headerPos |-> headerPos,
      out |-> out, sinkState |-> sinkState, failure |-> failure, promise |-> promise ]

\* two calls that use one Transform, as if pathToRecord were created once for
\* the module
ResumedWithSharedAdapter ==
    [other EXCEPT !.adapterQ = adapterQ, !.adapterState = adapterState]

\* what the build whose callback runs next finds: manifest, pomProps, the
\* Transform and the pipeline are locals of its own call of jar()
Resumed == other

\* the event loop turns from a callback of one build to a callback of the other
Switch ==
    /\ other' = Suspended
    /\ paths' = Resumed.paths
    /\ walkPos' = Resumed.walkPos
    /\ emitted' = Resumed.emitted
    /\ adapterQ' = Resumed.adapterQ
    /\ adapterState' = Resumed.adapterState
    /\ adapterFinished' = Resumed.adapterFinished
    /\ phase' = Resumed.phase
    /\ cur' = Resumed.cur
    /\ cumulativeOffset' = Resumed.cumulativeOffset
    /\ directoryRecords' = Resumed.directoryRecords
    /\ encQ' = Resumed.encQ
    /\ headerPos' = Resumed.headerPos
    /\ out' = Resumed.out
    /\ sinkState' = Resumed.sinkState
    /\ failure' = Resumed.failure
    /\ promise' = Resumed.promise
    /\ UNCHANGED << sep, cliVars >>

Next2 ==
    \/ transform
    \/ final
    \/ WalkFail
    \/ zipEntryBegin
    \/ zipPayloadChunk
    \/ zipEntryFinish
    \/ zipEnd
    \/ SinkWrite
    \/ SinkFinish
    \/ SinkFail
    \/ Switch

Spec2 == Init2 /\ [][Next2]_vars

\* ------------------------------------------------------------------ reader
\* a conformant archive reader: the end-of-index record is the last unit, the
\* directory starts where it says, and every directory record points at the
\* local header of its entry
RECURSIVE DecodeDirectory(_, _, _)
DecodeDirectory(s, pos, count) ==
    IF count = 0 THEN <<>>
    ELSE LET d == s[pos]
             name == [i \in 1..d.a |-> s[pos + i].s]
             h == s[d.c + 1]
             start == d.c + 1 + h.a
             payload == [i \in 1..d.b |-> s[start + i].s]
         IN  << [name |-> name, payload |-> payload, offset |-> d.c] >>
             \o DecodeDirectory(s, pos + 1 + d.a, count - 1)

Decode(s) == LET e == s[Len(s)] IN DecodeDirectory(s, e.b + 1, e.a)

Range(q) == { q[i] : i \in 1..Len(q) }
IsPrefix(p, q) == Len(p) <= Len(q) /\ SubSeq(q, 1, Len(p)) = p
HasIndex(s) == \E i \in 1..Len(s) : s[i].k = "E"

\* the archive entry a source file or a synthesized descriptor should become
Entry(name, payload) == [name |-> name, payload |-> payload]
UnderRoot(segs) == IsPrefix(RootSegs, segs)
ArchivePathOf(segs) ==
    Join([i \in 1..(Len(segs) - Len(RootSegs)) |-> << segs[i + Len(RootSegs)] >>], "/")
SynthesizedEntries ==
    { Entry(Get(manifest.path), Get(manifest.data)),
      Entry(Get(pomProps.path), Get(pomProps.data)) }
DecodedEntries(s) == { Entry(x.name, x.payload) : x \in Range(Decode(s)) }

\* the archivePath the adapter computed for a descriptor
DescriptorArchivePath(d) == IF Has(d.filename) THEN Get(d.filename) ELSE Get(d.path)

\* the descriptors the encoder has read so far
Consumed == SubSeq(emitted, 1, Len(emitted) - Len(adapterQ))

\* ------------------------------------------------------------------ claims
\* C1: the adapter emits exactly one descriptor per natural path, in arrival
\* order, then the manifest, then the properties descriptor, then end of
\* sequence; nothing synthesized comes before a natural descriptor and each
\* synthesized descriptor is emitted once.
C1_AdapterSequence ==
    /\ adapterState = "Streaming" => Len(emitted) = walkPos
    /\ adapterState = "Done" =>
         /\ walkPos = Len(paths)
         /\ Len(emitted) = Len(paths) + 2
         /\ emitted[Len(paths) + 1] = manifest
         /\ emitted[Len(paths) + 2] = pomProps
    /\ \A i \in 1..Min(walkPos, Len(emitted)) :
         /\ Has(emitted[i].path)
         /\ Get(emitted[i].path) = AbsPath(paths[i], sep)

C1_Witness ==
    /\ adapterState = "Done"
    /\ Len(paths) = 2
    /\ paths[1] # paths[2]

\* C2: for unique archive paths, decoding the finished stream yields exactly
\* the supplied entries under their archive paths plus the two synthesized
\* entries, each with the payload of its source.
C2_RoundTrip ==
    ( /\ sinkState = "finished"
      /\ \A i \in 1..Len(paths) : UnderRoot(paths[i])
      /\ \A i, j \in 1..Len(paths) : i # j => paths[i] # paths[j]
      /\ \A i \in 1..Len(paths) :
            ArchivePathOf(paths[i]) \notin { Get(manifest.path), Get(pomProps.path) } )
    => DecodedEntries(out) =
         { Entry(ArchivePathOf(f), FileData(f)) : f \in Range(paths) }
         \cup SynthesizedEntries

\* C3: every descriptor handed to the encoder carries its archivePath in the
\* field the encoder reads as the name (never the absolute path), and a payload:
\* a resident buffer, or else a reference to a file.
C3_UniformShape ==
    \A i \in 1..Len(emitted) :
        /\ i <= walkPos /\ UnderRoot(paths[i]) =>
              EntryName(emitted[i]) = ArchivePathOf(paths[i])
        /\ i > walkPos => EntryName(emitted[i]) \in { Get(manifest.path), Get(pomProps.path) }
        /\ Has(emitted[i].data) \/ Has(emitted[i].path)

\* C4: two entries with the same archivePath fail the build with
\* DuplicateEntryError; the second one is never written.
C4_DuplicateFails ==
    \A i, j \in 1..Len(Consumed) :
        ( i < j /\ DescriptorArchivePath(Consumed[i]) = DescriptorArchivePath(Consumed[j]) )
        => failure = "DuplicateEntryError"

\* C5: a path outside rootPath fails the build with PathOutsideRootError and
\* no descriptor whose archivePath begins with ".." is emitted.
C5_OutsideRootRejected ==
    /\ \A i \in 1..walkPos : ~UnderRoot(paths[i]) => failure = "PathOutsideRootError"
    /\ \A i \in 1..Len(emitted) :
         LET a == DescriptorArchivePath(emitted[i])
         IN  Len(a) > 0 => Head(a) # ".."

\* C6: with zero natural entries the adapter and the encoder raise no error and
\* the finished archive holds exactly the manifest, then the properties entry.
C6_EmptySource ==
    Len(paths) = 0 =>
        /\ failure \in {"none", "WalkError"} \cup SinkErrors
        /\ adapterState = "Done" => emitted = << manifest, pomProps >>
        /\ sinkState = "finished" =>
             /\ Len(Decode(out)) = 2
             /\ Decode(out)[1].name = Get(manifest.path)
             /\ Decode(out)[1].payload = Get(manifest.data)
             /\ Decode(out)[2].name = Get(pomProps.path)
             /\ Decode(out)[2].payload = Get(pomProps.data)

C6_Witness == Len(paths) = 0 /\ sinkState = "finished" /\ failure = "none"

\* C7: the localHeaderOffset of every directory record is the number of units
\* produced before that entry's header, whatever the payload sizes, and
\* cumulativeOffset never decreases.
C7_HeaderOffsets ==
    /\ [](/\ Len(headerPos) >= Len(directoryRecords)
          /\ \A i \in 1..Len(directoryRecords) :
               /\ directoryRecords[i].localHeaderOffset = headerPos[i]
               /\ Produced[headerPos[i] + 1].k = "H"
          /\ phase = "PayloadStreaming" => cur.startOffset = headerPos[Len(headerPos)]
          /\ phase = "Idle" /\ failure = "none" => cumulativeOffset = Len(Produced))
    /\ [][cumulativeOffset' >= cumulativeOffset]_vars

C7_Witness ==
    /\ Len(directoryRecords) >= 3
    /\ directoryRecords[1].size = 0
    /\ directoryRecords[2].localHeaderOffset > 0
    /\ directoryRecords[3].localHeaderOffset > directoryRecords[2].localHeaderOffset

\* C8: the directory records are the entries in arrival order (natural entries
\* in source order, then manifest, then properties), the trailing index lists
\* them in that order, and the records are only ever appended.
C8_DirectoryOrder ==
    /\ [](/\ \A i \in 1..Len(directoryRecords) :
               directoryRecords[i].name =
                  IF i <= Len(paths) THEN AbsPath(paths[i], sep)
                  ELSE IF i = Len(paths) + 1 THEN Get(manifest.path)
                  ELSE Get(pomProps.path)
          /\ phase = "Ended" =>
               /\ Len(directoryRecords) = Len(paths) + 2
               /\ [i \in 1..Len(Decode(Produced)) |-> Decode(Produced)[i].name] = DirNames)
    /\ [][IsPrefix(directoryRecords, directoryRecords')]_vars

C8_Witness ==
    /\ phase = "Ended"
    /\ paths = << <<"r", "sub", "b.txt">>, <<"r", "a.txt">> >>

\* C9 as stated: no output of a failed build contains an end-of-index record.
C9_NoIndexInFailedOutput == failure # "none" => ~HasIndex(out)

\* C9 as amended: the trailing index is written only once every entry has been
\* fully processed and no error has occurred, and after a failure the encoder
\* reads no further entry and writes nothing more.
C9_IndexOnlyAfterSuccess ==
    /\ [](HasIndex(Produced) =>
            /\ phase = "Ended"
            /\ adapterState = "Done"
            /\ walkPos = Len(paths)
            /\ Len(adapterQ) = 0
            /\ Len(directoryRecords) = Len(emitted))
    /\ [][~HasIndex(Produced) /\ HasIndex(Produced') => failure' = "none"]_vars
    /\ [][failure # "none" =>
            /\ Produced' = Produced
            /\ adapterQ' = adapterQ
            /\ cur' = cur]_vars

C9_Witness ==
    /\ failure \in SinkErrors
    /\ phase = "PayloadStreaming"
    /\ cur.sent < Len(cur.payload)
    /\ Len(out) > 0
    /\ Len(directoryRecords) > 0

\* C10: any failure of the build ends the process with a non-zero exit status
\* and an error report.
C10_FailureExitsNonZero ==
    (exitStatus # -1 /\ failure # "none") =>
        /\ exitStatus # 0
        /\ stderr = << failure >>

\* the archive-internal name the i-th entry of a build is written under
ExpectedName(i) ==
    IF i <= Len(paths) THEN AbsPath(paths[i], sep)
    ELSE IF i = Len(paths) + 1 THEN Get(manifest.path)
    ELSE Get(pomProps.path)

IsSynthesized(d) == d = manifest \/ d = pomProps

\* C11: every error is terminal: the first error stays the error of the build,
\* jar() rejects with it, and after it no entry is read, transformed, encoded
\* or written.
C11_FirstErrorTerminal ==
    /\ [](failure # "none" =>
            /\ promise = "rejected"
            /\ Len(stderr) > 0 => stderr = << failure >>)
    /\ [][failure # "none" =>
            /\ failure' = failure
            /\ promise' = promise
            /\ walkPos' = walkPos
            /\ emitted' = emitted
            /\ adapterQ' = adapterQ
            /\ cur' = cur
            /\ directoryRecords' = directoryRecords
            /\ encQ' = encQ
            /\ out' = out
            /\ sinkState' = sinkState]_vars

C11_Witness ==
    /\ failure = "PayloadReadError"
    /\ walkPos < Len(paths)
    /\ Len(directoryRecords) = 0
    /\ stderr = << "PayloadReadError" >>

\* C12: a build without errors runs to completion: once the sink has accepted
\* the whole stream the adapter is Done and its end-of-stream handler has
\* finished, the encoder has ended and the promise of jar() is resolved.
C12_BuildCompletes ==
    (failure = "none" /\ sinkState = "finished") =>
        /\ adapterState = "Done"
        /\ adapterFinished
        /\ phase = "Ended"
        /\ promise = "resolved"

\* C13: at most one entry is open in the encoder: every header starts where the
\* header, name and payload of the entry before it end, and the entries appear
\* in the output in the order of the input sequence.
C13_OneEntryAtATime ==
    /\ Len(headerPos) - Len(directoryRecords) \in {0, 1}
    /\ Len(headerPos) > Len(directoryRecords) <=> phase = "PayloadStreaming"
    /\ \A i \in 1..Len(headerPos) :
         LET h == Produced[headerPos[i] + 1]
             end == headerPos[i] + 1 + h.a + h.b
         IN  /\ h.k = "H"
             /\ [j \in 1..h.a |-> Produced[headerPos[i] + 1 + j].s] = ExpectedName(i)
             /\ \A j \in 1..h.a : Produced[headerPos[i] + 1 + j].k = "N"
             /\ IF i < Len(headerPos)
                THEN /\ headerPos[i + 1] = end
                     /\ \A j \in (headerPos[i] + 2 + h.a)..end : Produced[j].k = "B"
                ELSE phase # "Ended" => Len(Produced) <= end

C13_Witness ==
    /\ Len(headerPos) = 3
    /\ phase = "PayloadStreaming"
    /\ cur.sent > 0
    /\ cur.sent < Len(cur.payload)
    /\ Len(paths) = 1

\* C16: the end-of-sequence protocol runs once, after the last entry: the one
\* end-of-index record is the last unit, its count is the number of entries
\* (natural entries + 2), its directoryStart is cumulativeOffset after the last
\* entry and its length is that of the serialized directory records.
C16_EndOfIndex ==
    LET ends == { i \in 1..Len(Produced) : Produced[i].k = "E" }
    IN  /\ phase # "Ended" => ends = {}
        /\ phase = "Ended" =>
             LET e == Produced[Len(Produced)]
                 last == Produced[headerPos[Len(headerPos)] + 1]
             IN  /\ ends = { Len(Produced) }
                 /\ e.a = Len(paths) + 2
                 /\ e.a = Len(directoryRecords)
                 /\ e.b = cumulativeOffset
                 /\ e.b = headerPos[Len(headerPos)] + 1 + last.a + last.b
                 /\ e.c = Len(Produced) - 1 - e.b
                 /\ e.c = Len(SerializeDirectory(directoryRecords))
                 /\ \A i \in (e.b + 1)..(Len(Produced) - 1) : Produced[i].k \in {"D", "N"}
                 /\ Cardinality({ i \in 1..Len(Produced) : Produced[i].k = "D" }) = e.a

C16_Witness ==
    /\ phase = "Ended"
    /\ sinkState = "finished"
    /\ Len(paths) = 2

\* C17: the synthesized descriptors are emitted only when the natural sequence
\* was exhausted without an error; an adapter torn down by a failure emits
\* nothing any more.
C17_SynthesizedOnlyOnExhaustion ==
    /\ []((\E i \in 1..Len(emitted) : IsSynthesized(emitted[i])) =>
            /\ walkPos = Len(paths)
            /\ adapterState = "Done")
    /\ [][emitted' # emitted => failure = "none" /\ failure' = "none"]_vars
    /\ [][failure # "none" => emitted' = emitted /\ adapterState' = adapterState]_vars

C17_Witness ==
    /\ failure # "none"
    /\ adapterState = "Streaming"
    /\ walkPos >= 1
    /\ walkPos < Len(paths)
    /\ \A i \in 1..Len(emitted) : ~IsSynthesized(emitted[i])

\* the units that waited for the sink before the newest chunk was produced
BufferedBefore ==
    IF Len(encQ) = 0 THEN 0 ELSE Len(Flatten(SubSeq(encQ, 1, Len(encQ) - 1)))

\* the sink applies backpressure: as many units wait for it as its high water mark
SinkBackpressure == Len(Flatten(encQ)) >= HighWaterMark

\* as many descriptors wait for the encoder as the adapter's high water mark
AdapterBackpressure == Len(adapterQ) >= ObjectHighWaterMark

SoloPayload(d) == IF Has(d.data) THEN Get(d.data) ELSE ReadFile(Get(d.path))

\* the descriptors a build with these paths emits when it runs alone
SoloDescriptors(ps) ==
    [i \in 1..Len(ps) |-> TransformPushes(AbsPath(ps[i], sep))[1]] \o FinalPushes

RECURSIVE SoloEntries(_)
\* the header, name and payload of each descriptor, in order
SoloEntries(ds) ==
    IF Len(ds) = 0 THEN <<>>
    ELSE LET d == Head(ds)
         IN  LocalHeader(EntryName(d), Len(SoloPayload(d)))
             \o PayloadUnits(SoloPayload(d)) \o SoloEntries(Tail(ds))

RECURSIVE SoloRecords(_, _)
\* the directory record of each descriptor, the first one at this offset
SoloRecords(ds, offset) ==
    IF Len(ds) = 0 THEN <<>>
    ELSE LET d == Head(ds)
             e == [name |-> EntryName(d), payload |-> SoloPayload(d)]
         IN  << [name |-> e.name, size |-> Len(e.payload), localHeaderOffset |-> offset] >>
             \o SoloRecords(Tail(ds), offset + EntryBytes(e))

\* the archive a build with these paths writes when it runs alone and to its end
SoloArchive(ps) ==
    LET ds == SoloDescriptors(ps)
        entries == SoloEntries(ds)
        dir == SerializeDirectory(SoloRecords(ds, 0))
    IN  entries \o dir \o << Unit("E", "", Len(ds), Len(entries), Len(dir)) >>

\* a build has emitted and produced what it would have alone, up to where it is
AsAlone(b) ==
    /\ IsPrefix(b.emitted, SoloDescriptors(b.paths))
    /\ b.adapterState = "Done" => b.emitted = SoloDescriptors(b.paths)
    /\ IsPrefix(b.out \o Flatten(b.encQ), SoloArchive(b.paths))
    /\ b.sinkState = "finished" => b.out = SoloArchive(b.paths)

\* C15: of two calls of jar() that run interleaved, each emits the descriptors
\* and produces the bytes it would have emitted and produced alone, whatever
\* the interleaving: neither reads or writes what belongs to the other.
C15_BuildsIndependent ==
    /\ AsAlone(Suspended)
    /\ AsAlone(other)

\* both builds have an entry open at once, each after writing to its own sink,
\* and their inputs differ
C15_Witness ==
    /\ phase = "PayloadStreaming"
    /\ other.phase = "PayloadStreaming"
    /\ Len(out) > 0
    /\ Len(other.out) > 0
    /\ Len(directoryRecords) > 0
    /\ paths # other.paths
====
